---- MODULE Spec2Model ----
(***************************************************************************)
(* Ticket lifecycle and chat handlers of the student portal backend:       *)
(* ticketManagementController (createTicket, getAllTickets, getTicketById,  *)
(* updateTicket, deleteTicket), chatController (sendMessage, getMessages)   *)
(* and the reopen route the client calls.                                   *)
(* Every mutating handler is a sequence of steps separated by its awaits:   *)
(* the synchronous prefix that validates the request and builds the         *)
(* payload, the store call, and (for ticket mutations) the awaited          *)
(* logActivity. A reading handler is one step, its single store call.       *)
(* Spec interleaves the mutating handlers; ClockSpec, ChatSpec, ListSpec,   *)
(* ReadSpec, LiveSpec, AuditSpec and ServeSpec run some of the handlers     *)
(* with the clock, the reads, larger stores or fairness added; RouteSpec    *)
(* puts the two routers in front of the handlers; ClientSpec is the student *)
(* ticket page (StudentTicketPage and its Chat) reading the ticket list.    *)
(***************************************************************************)
EXTENDS Integers, Sequences, FiniteSets, Bags, TLC

VARIABLES tickets, nextId, messages, activity, inflight, nreq, last, now, client

vars == <<tickets, nextId, messages, activity, inflight, nreq, last, now, client>>

\* ------------------------------------------------------------------ bounds
MaxTickets == 1
MaxReqs == 2
MaxInFlight == 2
MaxNow == 2

\* ------------------------------------------------------- JavaScript values
Undefined == "<undefined>"
Null == "<null>"
Truthy(v) == v \notin {Undefined, Null, ""}

\* ------------------------------------------------------------ input values
TicketIds == 1..MaxTickets
Staff == {"U1"}
Students == {"S1", "S2"}
Statuses == {"Open", "In Progress", "Resolved"}

NoData == [none |-> TRUE]
NoResp == [kind |-> "none", id |-> 0, body |-> NoData,
           status |-> 0, error |-> "", data |-> NoData, code |-> ""]

\* The response sent for request r. `code` is not part of the response: it
\* records the code of the store error the response was built from, if any.
Respond(r, status, error, data) ==
    [kind |-> r.kind, id |-> r.id, body |-> r.body,
     status |-> status, error |-> error, data |-> data, code |-> ""]

\* A request that the handler's synchronous prefix turned into a store call.
\* The requests being served form a bag: two requests may be equal.
InFlight == BagToSet(inflight)
Add(r) == inflight (+) SetToBag({r})
Remove(r) == inflight (-) SetToBag({r})
Move(r, r2) == Remove(r) (+) SetToBag({r2})

Pending(kind, id, body, payload) ==
    [kind |-> kind, id |-> id, body |-> body,
     payload |-> payload, pc |-> "store", data |-> NoData]

CanReceive == nreq < MaxReqs /\ BagCardinality(inflight) < MaxInFlight

\* ------------------------------------------------------------ store errors
StoreErrors == {[code |-> "XX000", message |-> "connection refused"],
                [code |-> "XX000", message |-> Undefined]}
NotSingleRow == [code |-> "PGRST116", message |-> "JSON object requested, multiple (or no) rows returned"]
AssigneeMessage == "Assignee Error: assignee must be an admin user"
AssigneeRejected == [code |-> "P0001", message |-> AssigneeMessage]

\* error.message.includes('Assignee Error')
IncludesAssigneeError(message) == message = AssigneeMessage

\* handleSupabaseError without its 'Assignee Error' branch.
handleSupabaseError_NoAssignee(error, context) ==
    IF error.code = "PGRST116" THEN [status |-> 404, error |-> "Ticket not found"]
    ELSE IF error.message = Undefined THEN [status |-> 0, error |-> "throw"]
    ELSE [status |-> 500, error |-> "Failed to " \o context]

\* handleSupabaseError without its PGRST116 branch.
handleSupabaseError_NoNotFound(error, context) ==
    IF error.message = Undefined THEN [status |-> 0, error |-> "throw"]
    ELSE IF IncludesAssigneeError(error.message)
         THEN [status |-> 400, error |-> error.message]
    ELSE [status |-> 500, error |-> "Failed to " \o context]

\* handleSupabaseError: the response it sends, or "throw" when reading
\* error.message fails (the caller's catch then answers).
handleSupabaseError(error, context) ==
    IF error.code = "PGRST116" THEN [status |-> 404, error |-> "Ticket not found"]
    ELSE IF error.message = Undefined THEN [status |-> 0, error |-> "throw"]
    ELSE IF IncludesAssigneeError(error.message)
         THEN [status |-> 400, error |-> error.message]
    ELSE [status |-> 500, error |-> "Failed to " \o context]

\* ErrorResponse of a handler that calls handleSupabaseError outside its try
\* block: when handleSupabaseError throws, nothing is sent.
ErrorResponse_Unhandled(r, error, context) ==
    LET h == handleSupabaseError(error, context)
    IN  IF h.error = "throw" THEN NoResp
        ELSE [Respond(r, h.status, h.error, NoData) EXCEPT !.code = error.code]

\* The response of a handler whose store call returned `error`.
ErrorResponse(r, error, context) ==
    LET h == handleSupabaseError(error, context)
        resp == IF h.error = "throw"
                THEN Respond(r, 500, "Internal server error", NoData)
                ELSE Respond(r, h.status, h.error, NoData)
    IN  [resp EXCEPT !.code = error.code]

\* ------------------------------------------------------------ logActivity
\* The awaited audit write: it appends the record, or fails inside and
\* returns, or rejects (the awaiting handler's catch then runs).
LogOutcomes == {"ok", "fail", "throw"}

logActivity(outcome, action) ==
    IF outcome = "ok" THEN Append(activity, action) ELSE activity

\* AfterLog sending the row with every status.
AfterLog_SendsRow(r, outcome, action, status) ==
    /\ r \in InFlight /\ r.pc = "log"
    /\ activity' = logActivity(outcome, action)
    /\ last' = IF outcome = "throw"
               THEN Respond(r, 500, "Internal server error", NoData)
               ELSE Respond(r, status, "", r.data)
    /\ inflight' = Remove(r)
    /\ UNCHANGED <<tickets, nextId, messages, nreq, now, client>>

\* The handler's continuation after `await logActivity(...)`.
AfterLog(r, outcome, action, status) ==
    /\ r \in InFlight /\ r.pc = "log"
    /\ activity' = logActivity(outcome, action)
    /\ last' = IF outcome = "throw"
               THEN Respond(r, 500, "Internal server error", NoData)
               ELSE Respond(r, status, "", IF status = 204 THEN NoData ELSE r.data)
    /\ inflight' = Remove(r)
    /\ UNCHANGED <<tickets, nextId, messages, nreq, now, client>>

\* The store call failed with an error object, or threw.
StoreFails(r, context) ==
    /\ \/ \E e \in StoreErrors : last' = ErrorResponse(r, e, context)
       \/ last' = Respond(r, 500, "Internal server error", NoData)
    /\ inflight' = Remove(r)
    /\ UNCHANGED <<tickets, nextId, messages, activity, nreq, now, client>>

\* ------------------------------------------------------------ createTicket
CreateBody(title, description, student_id, priority, category, status) ==
    [title |-> title, description |-> description, student_id |-> student_id,
     priority |-> priority, category |-> category, status |-> status]

CreateBodies ==
    {CreateBody("wifi", "d", "S1", Undefined, Undefined, Undefined),
     CreateBody("wifi", "d", "S1", "High", Undefined, "Resolved"),
     CreateBody("wifi", "d", "S1", "", "Fee", Undefined),
     CreateBody(Undefined, "d", "S1", "High", "Fee", Undefined),
     CreateBody("", "d", "S1", Undefined, Undefined, Undefined),
     CreateBody("wifi", Undefined, "S1", Undefined, Undefined, Undefined),
     CreateBody("wifi", "", "S1", Undefined, Undefined, "Resolved"),
     CreateBody("wifi", "d", Undefined, Undefined, Undefined, Undefined),
     CreateBody("wifi", "d", "", Undefined, Undefined, Undefined),
     CreateBody(Undefined, Undefined, Undefined, Undefined, Undefined, Undefined)}

\* createTicketInvalid without the student_id check.
createTicketInvalid_NoStudent(body) ==
    ~Truthy(body.title) \/ ~Truthy(body.description)

createTicketInvalid(body) ==
    ~Truthy(body.title) \/ ~Truthy(body.description) \/ ~Truthy(body.student_id)

\* createTicketRow taking the status from the request body.
createTicketRow_BodyStatus(body) ==
    [title |-> body.title, description |-> body.description,
     student_id |-> body.student_id,
     priority |-> IF Truthy(body.priority) THEN body.priority ELSE "Low",
     category |-> IF Truthy(body.category) THEN body.category ELSE "General",
     status |-> IF Truthy(body.status) THEN body.status ELSE "Open"]

createTicketRow(body) ==
    [title |-> body.title, description |-> body.description,
     student_id |-> body.student_id,
     priority |-> IF Truthy(body.priority) THEN body.priority ELSE "Low",
     category |-> IF Truthy(body.category) THEN body.category ELSE "General",
     status |-> "Open"]

CreatesInFlight ==
    LET creates == {r \in InFlight : r.kind = "create" /\ r.pc = "store"} IN
    BagCardinality([r \in creates |-> inflight[r]])

\* POST / arriving with one of the given request bodies.
createTicketWith(bodies) ==
    /\ CanReceive
    /\ \E body \in bodies :
         LET r == Pending("create", 0, body, createTicketRow(body)) IN
         IF createTicketInvalid(body)
         THEN /\ last' = Respond(r, 400, "Title, description, and student creator are required", NoData)
              /\ UNCHANGED inflight
         ELSE /\ nextId + CreatesInFlight <= MaxTickets
              /\ inflight' = Add(r)
              /\ last' = NoResp
    /\ nreq' = nreq + 1
    /\ UNCHANGED <<tickets, nextId, messages, activity, now, client>>

createTicket == createTicketWith(CreateBodies)

\* The store's insert: the row gets its id and a null assignee.
InsertedTicket(row) ==
    [id |-> nextId, title |-> row.title, description |-> row.description,
     student_id |-> row.student_id, priority |-> row.priority,
     category |-> row.category, status |-> row.status, assignee_id |-> Null,
     created_at |-> now, updated_at |-> now]

createTicketStore(r) ==
    /\ r \in InFlight /\ r.kind = "create" /\ r.pc = "store"
    /\ \/ LET t == InsertedTicket(r.payload) IN
          /\ tickets' = tickets @@ (nextId :> t)
          /\ nextId' = nextId + 1
          /\ inflight' = Move(r, [r EXCEPT !.pc = "log", !.data = t])
          /\ last' = NoResp
          /\ UNCHANGED <<messages, activity, nreq, now, client>>
       \/ StoreFails(r, "creating ticket")

\* createTicketLog logging with the label of updateTicket.
createTicketLog_Updated(r) ==
    /\ r.kind = "create"
    /\ \E o \in LogOutcomes : AfterLog(r, o, "Updated", 201)

createTicketLog(r) ==
    /\ r.kind = "create"
    /\ \E o \in LogOutcomes : AfterLog(r, o, "Created", 201)

\* ------------------------------------------------------------ updateTicket
UpdateBodies ==
    [assignee_id : {Undefined, Null, "U1", "X9"}, status : {Undefined}]
    \cup
    [assignee_id : {Undefined},
     status : {"", "Open", "In Progress", "Resolved", "Closed"}]
    \cup
    [assignee_id : {"U1"}, status : {"Resolved"}]

\* updatePayload testing `if (assignee_id)` instead of `!== undefined`.
updatePayload_TruthyAssignee(body) ==
    [assignee_id |-> IF Truthy(body.assignee_id) THEN body.assignee_id ELSE Undefined,
     status |-> IF Truthy(body.status) THEN body.status ELSE Undefined]

\* updatePayload before updated_at is added; Undefined marks a key that is
\* not set.
updatePayload(body) ==
    [assignee_id |-> body.assignee_id,
     status |-> IF Truthy(body.status) THEN body.status ELSE Undefined]

NoKeys(payload) == payload.assignee_id = Undefined /\ payload.status = Undefined

\* updatePayload.updated_at = new Date(): the handler reads its clock before
\* the store call is issued.
withUpdatedAt(payload) ==
    [assignee_id |-> payload.assignee_id, status |-> payload.status,
     updated_at |-> now]

\* PATCH /:id arriving with one of the given request bodies.
updateTicketWith(bodies) ==
    /\ CanReceive
    /\ \E id \in TicketIds, body \in bodies :
         LET r == Pending("update", id, body, withUpdatedAt(updatePayload(body))) IN
         IF NoKeys(updatePayload(body))
         THEN /\ last' = Respond(r, 400, "No fields to update provided.", NoData)
              /\ UNCHANGED inflight
         ELSE /\ inflight' = Add(r)
              /\ last' = NoResp
    /\ nreq' = nreq + 1
    /\ UNCHANGED <<tickets, nextId, messages, activity, now, client>>

updateTicket == updateTicketWith(UpdateBodies)

\* UpdatedTicket writing the status key of the payload even when it is not set.
UpdatedTicket_WritesStatus(t, payload) ==
    [t EXCEPT !.assignee_id = IF payload.assignee_id = Undefined THEN @ ELSE payload.assignee_id,
              !.status = payload.status,
              !.updated_at = payload.updated_at]

\* The row after .update(payload): only the keys of the payload change.
UpdatedTicket(t, payload) ==
    [t EXCEPT !.assignee_id = IF payload.assignee_id = Undefined THEN @ ELSE payload.assignee_id,
              !.status = IF payload.status = Undefined THEN @ ELSE payload.status,
              !.updated_at = payload.updated_at]

\* The trigger on tickets raises 'Assignee Error' for an assignee that is no staff account.
AssigneeTriggerRejects(payload) ==
    payload.assignee_id \notin {Undefined, Null} /\ payload.assignee_id \notin Staff

updateTicketStore(r) ==
    /\ r \in InFlight /\ r.kind = "update" /\ r.pc = "store"
    /\ \/ /\ r.id \in DOMAIN tickets
          /\ ~AssigneeTriggerRejects(r.payload)
          /\ LET t == UpdatedTicket(tickets[r.id], r.payload) IN
             /\ tickets' = [tickets EXCEPT ![r.id] = t]
             /\ inflight' = Move(r, [r EXCEPT !.pc = "log", !.data = t])
          /\ last' = NoResp
          /\ UNCHANGED <<nextId, messages, activity, nreq, now, client>>
       \/ /\ r.id \notin DOMAIN tickets
          /\ last' = ErrorResponse(r, NotSingleRow, "updating ticket " \o ToString(r.id))
          /\ inflight' = Remove(r)
          /\ UNCHANGED <<tickets, nextId, messages, activity, nreq, now, client>>
       \/ /\ r.id \in DOMAIN tickets
          /\ AssigneeTriggerRejects(r.payload)
          /\ last' = ErrorResponse(r, AssigneeRejected, "updating ticket " \o ToString(r.id))
          /\ inflight' = Remove(r)
          /\ UNCHANGED <<tickets, nextId, messages, activity, nreq, now, client>>
       \/ StoreFails(r, "updating ticket " \o ToString(r.id))

updateTicketLog(r) ==
    /\ r.kind = "update"
    /\ \E o \in LogOutcomes : AfterLog(r, o, "Updated", 200)

\* ------------------------------------------------------------ deleteTicket
deleteTicket ==
    /\ CanReceive
    /\ \E id \in TicketIds :
         inflight' = Add(Pending("delete", id, NoData, NoData))
    /\ last' = NoResp
    /\ nreq' = nreq + 1
    /\ UNCHANGED <<tickets, nextId, messages, activity, now, client>>

deleteTicketStore(r) ==
    /\ r \in InFlight /\ r.kind = "delete" /\ r.pc = "store"
    /\ \/ /\ r.id \in DOMAIN tickets
          /\ tickets' = [i \in DOMAIN tickets \ {r.id} |-> tickets[i]]
          /\ inflight' = Move(r, [r EXCEPT !.pc = "log", !.data = tickets[r.id]])
          /\ last' = NoResp
          /\ UNCHANGED <<nextId, messages, activity, nreq, now, client>>
       \/ /\ r.id \notin DOMAIN tickets
          /\ last' = ErrorResponse(r, NotSingleRow, "deleting ticket " \o ToString(r.id))
          /\ inflight' = Remove(r)
          /\ UNCHANGED <<tickets, nextId, messages, activity, nreq, now, client>>
       \/ StoreFails(r, "deleting ticket " \o ToString(r.id))

deleteTicketLog(r) ==
    /\ r.kind = "delete"
    /\ \E o \in LogOutcomes : AfterLog(r, o, "Deleted", 204)

\* ------------------------------------------------------------ reopenTicket
\* POST /tickets/:id/reopen as the client calls it: Resolved -> Open, guarded.
\* reopenAllowed letting every ticket that is not Open through.
reopenAllowed_NotOpen(t) == t.status # "Open"

reopenAllowed(t) == t.status = "Resolved"

reopenTicket ==
    /\ CanReceive
    /\ \E id \in TicketIds :
         inflight' = Add(Pending("reopen", id, NoData, NoData))
    /\ last' = NoResp
    /\ nreq' = nreq + 1
    /\ UNCHANGED <<tickets, nextId, messages, activity, now, client>>

reopenTicketStore(r) ==
    /\ r \in InFlight /\ r.kind = "reopen" /\ r.pc = "store"
    /\ \/ /\ r.id \in DOMAIN tickets
          /\ reopenAllowed(tickets[r.id])
          /\ LET t == [tickets[r.id] EXCEPT !.status = "Open"] IN
             /\ tickets' = [tickets EXCEPT ![r.id] = t]
             /\ inflight' = Move(r, [r EXCEPT !.pc = "log", !.data = t])
          /\ last' = NoResp
          /\ UNCHANGED <<nextId, messages, activity, nreq, now, client>>
       \/ /\ r.id \in DOMAIN tickets
          /\ ~reopenAllowed(tickets[r.id])
          /\ last' = Respond(r, 409, "Ticket is not resolved", NoData)
          /\ inflight' = Remove(r)
          /\ UNCHANGED <<tickets, nextId, messages, activity, nreq, now, client>>
       \/ /\ r.id \notin DOMAIN tickets
          /\ last' = Respond(r, 404, "Ticket not found", NoData)
          /\ inflight' = Remove(r)
          /\ UNCHANGED <<tickets, nextId, messages, activity, nreq, now, client>>
       \/ StoreFails(r, "reopening ticket " \o ToString(r.id))

reopenTicketLog(r) ==
    /\ r.kind = "reopen"
    /\ \E o \in LogOutcomes : AfterLog(r, o, "Reopened", 200)

\* ------------------------------------------------------------- sendMessage
MessageBody(sender_user_id, sender_student_id, message) ==
    [sender_user_id |-> sender_user_id, sender_student_id |-> sender_student_id,
     message |-> message]

MessageBodies ==
    {MessageBody("U1", Undefined, "hi"),
     MessageBody(Undefined, "S1", "hi"),
     MessageBody("U1", "S1", "hi"),
     MessageBody(Undefined, Undefined, "hi"),
     MessageBody("", "", "hi"),
     MessageBody("U1", Undefined, ""),
     MessageBody(Undefined, "S1", Undefined)}

sendMessageInvalid(body) ==
    (~Truthy(body.sender_user_id) /\ ~Truthy(body.sender_student_id)) \/ ~Truthy(body.message)

\* sendMessagePayload copying both sender ids of the body.
sendMessagePayload_Both(ticketId, body) ==
    [ticket_id |-> ticketId, message |-> body.message,
     sender_user_id |-> IF Truthy(body.sender_user_id) THEN body.sender_user_id ELSE Null,
     sender_student_id |-> IF Truthy(body.sender_student_id) THEN body.sender_student_id ELSE Null]

\* payload; Null marks a sender key that is not set (the column stays null).
sendMessagePayload(ticketId, body) ==
    [ticket_id |-> ticketId, message |-> body.message,
     sender_user_id |-> IF Truthy(body.sender_user_id) THEN body.sender_user_id ELSE Null,
     sender_student_id |-> IF Truthy(body.sender_user_id) THEN Null ELSE body.sender_student_id]

\* POST /:ticketId arriving with one of the given request bodies.
sendMessageWith(bodies) ==
    /\ CanReceive
    /\ \E ticketId \in TicketIds, body \in bodies :
         LET r == Pending("send", ticketId, body, sendMessagePayload(ticketId, body)) IN
         IF sendMessageInvalid(body)
         THEN /\ last' = Respond(r, 400, "Either sender_user_id or sender_student_id, and a message are required", NoData)
              /\ UNCHANGED inflight
         ELSE /\ inflight' = Add(r)
              /\ last' = NoResp
    /\ nreq' = nreq + 1
    /\ UNCHANGED <<tickets, nextId, messages, activity, now, client>>

sendMessage == sendMessageWith(MessageBodies)

\* The foreign keys behind the embedded selects sender_user:users(..) and
\* sender_student:students(..): a sender that is set is a row of its table.
SenderExists(payload) ==
    /\ payload.sender_user_id \in Staff \cup {Null}
    /\ payload.sender_student_id \in Students \cup {Null}

InsertedMessage(payload) ==
    [id |-> Len(messages) + 1, ticket_id |-> payload.ticket_id, message |-> payload.message,
     sender_user_id |-> payload.sender_user_id,
     sender_student_id |-> payload.sender_student_id,
     created_at |-> now]

\* sendMessageStore with an upsert for the insert: the latest message is
\* overwritten.
sendMessageStore_Upsert(r) ==
    /\ r \in InFlight /\ r.kind = "send" /\ r.pc = "store"
    /\ \/ LET m == InsertedMessage(r.payload) IN
          /\ SenderExists(r.payload)
          /\ messages' = IF messages = << >> THEN <<m>>
                         ELSE [messages EXCEPT ![Len(messages)] = m]
          /\ last' = Respond(r, 201, "", m)
          /\ inflight' = Remove(r)
          /\ UNCHANGED <<tickets, nextId, activity, nreq, now, client>>
       \/ /\ last' \in {Respond(r, 500, "Failed to send message", NoData),
                        Respond(r, 500, "Internal server error", NoData)}
          /\ inflight' = Remove(r)
          /\ UNCHANGED <<tickets, nextId, messages, activity, nreq, now, client>>

sendMessageStore(r) ==
    /\ r \in InFlight /\ r.kind = "send" /\ r.pc = "store"
    /\ \/ LET m == InsertedMessage(r.payload) IN
          /\ SenderExists(r.payload)
          /\ messages' = Append(messages, m)
          /\ last' = Respond(r, 201, "", m)
          /\ inflight' = Remove(r)
          /\ UNCHANGED <<tickets, nextId, activity, nreq, now, client>>
       \/ /\ last' \in {Respond(r, 500, "Failed to send message", NoData),
                        Respond(r, 500, "Internal server error", NoData)}
          /\ inflight' = Remove(r)
          /\ UNCHANGED <<tickets, nextId, messages, activity, nreq, now, client>>

\* ------------------------------------------------------------------ reads
\* All orders of the rows with created_at descending (ascending when asked):
\* rows of equal created_at come in any order.
RECURSIVE Ordered(_, _)
Ordered(rows, ascending) ==
    IF rows = {} THEN {<< >>}
    ELSE LET first == {row \in rows : \A other \in rows :
                          IF ascending THEN row.created_at <= other.created_at
                                       ELSE row.created_at >= other.created_at}
         IN  UNION {{<<row>> \o rest : rest \in Ordered(rows \ {row}, ascending)} : row \in first}

\* ------------------------------------------------------------- getMessages
\* getMessagesRows reading the messages of every ticket.
getMessagesRows_AllTickets(ticketId) ==
    {messages[i] : i \in DOMAIN messages}

\* .eq('ticket_id', ticketId)
getMessagesRows(ticketId) ==
    {m \in {messages[i] : i \in DOMAIN messages} : m.ticket_id = ticketId}

\* The tables users and students the embedded selects read.
Usernames == [u \in Staff |-> "admin"]
StudentNames == [st \in Students |-> "Asha"]

\* An embedded relation that has no row (null in the response).
NullRelation == [null |-> TRUE]

\* select(*, sender_user:users(username), sender_student:students(name))
selectMessage(m) ==
    m @@ [sender_user |-> IF m.sender_user_id \in Staff
                          THEN [username |-> Usernames[m.sender_user_id]]
                          ELSE NullRelation,
          sender_student |-> IF m.sender_student_id \in Students
                             THEN [name |-> StudentNames[m.sender_student_id]]
                             ELSE NullRelation]

senderName(msg) ==
    IF msg.sender_user # NullRelation THEN msg.sender_user.username
    ELSE IF msg.sender_student # NullRelation THEN msg.sender_student.name
    ELSE ""

\* mapMessage without the two delete statements.
mapMessage_KeepsRelations(msg) ==
    msg @@ [sender_name |-> senderName(msg)]

\* data.map(msg => ..): the relations are deleted, sender_name is added.
mapMessage(msg) ==
    [k \in DOMAIN msg \ {"sender_user", "sender_student"} |-> msg[k]]
      @@ [sender_name |-> senderName(msg)]

\* A ticket id no ticket request names: its messages are another ticket's.
OtherTicket == MaxTickets + 1

getMessages ==
    /\ \E ticketId \in TicketIds \cup {OtherTicket} :
         LET r == [kind |-> "messages", id |-> ticketId, body |-> NoData] IN
         \/ \E order \in Ordered(getMessagesRows(ticketId), TRUE) :
               last' = Respond(r, 200, "", [i \in DOMAIN order |-> mapMessage(selectMessage(order[i]))])
         \/ last' \in {Respond(r, 500, "Failed to fetch messages", [details |-> "connection refused"]),
                       Respond(r, 500, "Internal server error", [details |-> "fetch failed"])}
    /\ UNCHANGED <<tickets, nextId, messages, activity, inflight, nreq, now, client>>

\* ----------------------------------------------------------- getAllTickets
\* Text columns are strings; Spell gives the characters of the texts the
\* listing searches in and for.
Spell(text) ==
    CASE text = "WiFi" -> <<"W", "i", "F", "i">>
      [] text = "wifi" -> <<"w", "i", "f", "i">>
      [] text = "fee" -> <<"f", "e", "e">>
      [] text = "lab" -> <<"l", "a", "b">>
      [] text = "FI" -> <<"F", "I">>
      [] text = "d" -> <<"d">>
      [] text = "_" -> <<"_">>
      [] OTHER -> << >>

LowerChar(c) ==
    CASE c = "W" -> "w" [] c = "F" -> "f" [] c = "I" -> "i" [] OTHER -> c

Lower(chars) == [i \in DOMAIN chars |-> LowerChar(chars[i])]

\* column LIKE pattern: % stands for any characters, _ for any one character.
RECURSIVE Like(_, _)
Like(chars, pattern) ==
    IF pattern = << >> THEN chars = << >>
    ELSE IF Head(pattern) = "%"
         THEN Like(chars, Tail(pattern)) \/ (chars # << >> /\ Like(Tail(chars), pattern))
    ELSE /\ chars # << >>
         /\ Head(pattern) \in {"_", Head(chars)}
         /\ Like(Tail(chars), Tail(pattern))

\* column.ilike.%${search}%
ILikeSearch(text, search) ==
    Like(Lower(Spell(text)), Lower(<<"%">> \o Spell(search) \o <<"%">>))

\* req.query: every parameter is absent or a string. status and search are
\* Undefined when absent; page and limit are << >> when absent and <<n>> for
\* the string of the decimal digits of n.
MaxPage == 2
MaxLimit == 2
DefaultPage == 1
DefaultLimit == 15

ListQueries ==
    [status : {Undefined, "", "All", "Open", "Resolved"},
     search : {Undefined}, page : {<< >>}, limit : {<< >>}]
    \cup
    [status : {Undefined, "Open"},
     search : {"", "wifi", "FI", "fee", "_"}, page : {<< >>}, limit : {<< >>}]
    \cup
    [status : {Undefined}, search : {Undefined, "wifi"},
     page : {<< >>} \cup {<<n>> : n \in 1..MaxPage},
     limit : {<< >>} \cup {<<n>> : n \in 1..MaxLimit}]

\* const { page = 1, limit = 15 } = req.query, read as numbers
listPage(query) == IF query.page = << >> THEN DefaultPage ELSE query.page[1]
listLimit(query) == IF query.limit = << >> THEN DefaultLimit ELSE query.limit[1]

RECURSIVE Digits(_)
Digits(n) == IF n < 10 THEN 1 ELSE 1 + Digits(n \div 10)

RECURSIVE Pow10(_)
Pow10(k) == IF k = 0 THEN 1 ELSE 10 * Pow10(k - 1)

\* number + string in JavaScript: the digits of both, one after the other.
PlusString(n, digits) == n * Pow10(Digits(digits)) + digits

\* (page - 1) * limit: both operators convert their operands to numbers.
listOffset(query) == (listPage(query) - 1) * listLimit(query)

\* offset + limit - 1: + adds to the default limit, a number, and joins
\* the digits of a limit taken from the query, a string.
listRangeTo(query) ==
    IF query.limit = << >>
    THEN listOffset(query) + DefaultLimit - 1
    ELSE PlusString(listOffset(query), query.limit[1]) - 1

\* The rows the filters of the query keep.
listMatches(t, query) ==
    /\ (Truthy(query.status) /\ query.status # "All") => t.status = query.status
    /\ Truthy(query.search) =>
          ILikeSearch(t.title, query.search) \/ ILikeSearch(t.description, query.search)

\* select(id, .., student:students(id, name), assignee:users(id, username), assignee_id)
selectTicket(t) ==
    [id |-> t.id, title |-> t.title, description |-> t.description,
     status |-> t.status, priority |-> t.priority, category |-> t.category,
     created_at |-> t.created_at, updated_at |-> t.updated_at,
     student |-> [id |-> t.student_id, name |-> StudentNames[t.student_id]],
     assignee |-> IF t.assignee_id \in Staff
                  THEN [id |-> t.assignee_id, username |-> Usernames[t.assignee_id]]
                  ELSE NullRelation,
     assignee_id |-> t.assignee_id]

\* .range(from, to): the rows at positions from..to, counted from 0.
Range(order, from, to) ==
    LET last1 == IF to + 1 < Len(order) THEN to + 1 ELSE Len(order)
    IN  SubSeq(order, from + 1, last1)

\* The bodies a 200 response of getAllTickets can carry.
listResults(query) ==
    LET rows == {t \in {tickets[i] : i \in DOMAIN tickets} : listMatches(t, query)} IN
    {LET window == Range(order, listOffset(query), listRangeTo(query)) IN
     [items |-> [i \in DOMAIN window |-> selectTicket(window[i])],
      total |-> Cardinality(rows),
      page |-> listPage(query),
      limit |-> listLimit(query)]
     : order \in Ordered(rows, FALSE)}

\* A handler that only reads: its single store call failed or threw.
ReadFails(r, context) ==
    \/ \E e \in StoreErrors : last' = ErrorResponse(r, e, context)
    \/ last' = Respond(r, 500, "Internal server error", NoData)

\* GET / arriving with one of the given queries.
getAllTicketsWith(queries) ==
    /\ \E query \in queries :
         LET r == [kind |-> "list", id |-> 0, body |-> query] IN
         \/ \E result \in listResults(query) : last' = Respond(r, 200, "", result)
         \/ ReadFails(r, "fetching tickets")
    /\ UNCHANGED <<tickets, nextId, messages, activity, inflight, nreq, now, client>>

getAllTickets == getAllTicketsWith(ListQueries)

\* ----------------------------------------------------------- getTicketById
getTicketById ==
    /\ \E id \in TicketIds :
         LET r == [kind |-> "get", id |-> id, body |-> NoData]
             context == "fetching ticket " \o ToString(id)
         IN  \/ /\ id \in DOMAIN tickets
                /\ last' = Respond(r, 200, "", selectTicket(tickets[id]))
             \/ /\ id \notin DOMAIN tickets
                /\ last' = ErrorResponse(r, NotSingleRow, context)
             \/ ReadFails(r, context)
    /\ UNCHANGED <<tickets, nextId, messages, activity, inflight, nreq, now, client>>

\* ------------------------------------------------------ student ticket page
\* The state of StudentTicketPage and of the Chat it renders: the token and
\* the student read from localStorage, the view, the ticket selected, the
\* result of the tickets query, the text of the chat input, the pending flags
\* of the two mutations, and the requests the page has issued.
MaxSent == 2

NoClient == [open |-> FALSE]

ClientState(token, student) ==
    [token |-> token, student |-> student, view |-> "list",
     selectedTicket |-> NoData, ticketsData |-> NoData, newMessage |-> "",
     isSending |-> FALSE, isReopening |-> FALSE, sent |-> << >>]

ServerUnchanged ==
    UNCHANGED <<tickets, nextId, messages, activity, inflight, nreq, last, now>>

\* fetchTickets(statusFilter, searchTerm) with the filter 'all' and no search
\* term: neither parameter is sent.
fetchTicketsQuery ==
    [status |-> Undefined, search |-> Undefined, page |-> << >>, limit |-> << >>]

\* useQuery({ queryFn: () => fetchTickets(..), enabled: !!token })
fetchTickets ==
    /\ client.token
    /\ getAllTicketsWith({fetchTicketsQuery})

\* The response of the tickets query arrives; the effect on ticketsData then
\* replaces the selected ticket by its fresh copy.
receiveTickets ==
    /\ last.kind = "list" /\ last.status = 200
    /\ LET items == last.data.items
           fresh == {i \in DOMAIN items :
                       /\ client.selectedTicket # NoData
                       /\ items[i].id = client.selectedTicket.id}
       IN  client' = [client EXCEPT
                        !.ticketsData = last.data,
                        !.selectedTicket =
                            IF fresh = {} THEN @
                            ELSE items[CHOOSE i \in fresh : \A j \in fresh : i <= j]]
    /\ ServerUnchanged

\* ticket.student_id || ticket.student?.id
ticketStudentId(ticket) ==
    IF "student_id" \in DOMAIN ticket /\ Truthy(ticket.student_id) THEN ticket.student_id
    ELSE IF ticket.student # NullRelation THEN ticket.student.id
    ELSE Undefined

\* filteredTickets of StudentTicketPage
filteredTickets ==
    IF client.ticketsData = NoData THEN << >>
    ELSE IF client.student = Null THEN client.ticketsData.items
    ELSE SelectSeq(client.ticketsData.items,
                   LAMBDA ticket : ticketStudentId(ticket) = client.student)

\* The memo `tickets` of the page in client/pages/Tickets.tsx
TicketsPageTickets ==
    IF client.ticketsData = NoData \/ client.student = Null THEN << >>
    ELSE SelectSeq(client.ticketsData.items,
                   LAMBDA ticket : ticket.student.id = client.student)

handleTicketSelect ==
    /\ client.view = "list"
    /\ \E i \in DOMAIN filteredTickets :
          client' = [client EXCEPT !.selectedTicket = filteredTickets[i],
                                   !.view = "detail"]
    /\ ServerUnchanged

\* onBack of the detail view; the Chat is unmounted and loses its input.
onBack ==
    /\ client.view = "detail"
    /\ client' = [client EXCEPT !.selectedTicket = NoData, !.view = "list",
                                !.newMessage = ""]
    /\ ServerUnchanged

\* TicketDetailView: the props it passes to Chat.
isResolved == client.selectedTicket.status = "Resolved"

ChatProps ==
    [isSending |-> client.isSending, disabled |-> isResolved]

\* Chat: the disabled attributes of its Input and of its Button.
Trim(text) == IF text = " " THEN "" ELSE text

InputDisabled(props) == props.isSending

ButtonDisabled(props) == props.isSending \/ Trim(client.newMessage) = ""

setNewMessage ==
    /\ client.view = "detail" /\ ~InputDisabled(ChatProps)
    /\ \E text \in {"hi", " "} : client' = [client EXCEPT !.newMessage = text]
    /\ ServerUnchanged

\* sendMessageMutation.mutate(msg): the request is issued unless reading
\* student!.id throws.
onSendMessage(msg) ==
    IF client.student = Null THEN [client EXCEPT !.newMessage = ""]
    ELSE [client EXCEPT
            !.newMessage = "",
            !.isSending = TRUE,
            !.sent = Append(@, [kind |-> "send", id |-> client.selectedTicket.id,
                                body |-> MessageBody(Undefined, client.student, msg)])]

handleSendMessage ==
    IF Trim(client.newMessage) # "" THEN onSendMessage(Trim(client.newMessage))
    ELSE client

\* onKeyDown of the Input, with the Enter key
pressEnter ==
    /\ client.view = "detail" /\ ~InputDisabled(ChatProps)
    /\ Len(client.sent) < MaxSent
    /\ client' = handleSendMessage
    /\ ServerUnchanged

\* onClick of the Button
clickSend ==
    /\ client.view = "detail" /\ ~ButtonDisabled(ChatProps)
    /\ Len(client.sent) < MaxSent
    /\ client' = handleSendMessage
    /\ ServerUnchanged

sendSettled ==
    /\ client.isSending
    /\ client' = [client EXCEPT !.isSending = FALSE]
    /\ ServerUnchanged

\* onClick of 'Reopen Ticket to Message', rendered when isResolved
onReopen ==
    /\ client.view = "detail" /\ isResolved /\ ~client.isReopening
    /\ Len(client.sent) < MaxSent
    /\ client' = [client EXCEPT
                    !.isReopening = TRUE,
                    !.sent = Append(@, [kind |-> "reopen", id |-> client.selectedTicket.id,
                                        body |-> NoData])]
    /\ ServerUnchanged

reopenSettled ==
    /\ client.isReopening
    /\ client' = [client EXCEPT !.isReopening = FALSE]
    /\ ServerUnchanged

\* -------------------------------------------------------------------- spec
\* The store is a database that outlives the server process: when the server
\* starts it is empty, or it already holds a ticket that createTicket
\* inserted and updateTicket moved to one of the three statuses.
StoredTicket(status) ==
    [id |-> 1, title |-> "wifi", description |-> "d", student_id |-> "S1",
     priority |-> "Low", category |-> "General", status |-> status,
     assignee_id |-> Null, created_at |-> 0, updated_at |-> 0]

InitialStores == {<< >>} \cup {1 :> StoredTicket(s) : s \in Statuses}

Init ==
    /\ tickets \in InitialStores
    /\ nextId = Cardinality(DOMAIN tickets) + 1
    /\ messages = << >>
    /\ activity = << >>
    /\ inflight = EmptyBag
    /\ nreq = 0
    /\ last = NoResp
    /\ now = 1
    /\ client = NoClient

\* The clock the handlers (new Date()) and the store (column defaults) read
\* moves on between any two steps.
Tick ==
    /\ now < MaxNow
    /\ now' = now + 1
    /\ last' = NoResp
    /\ UNCHANGED <<tickets, nextId, messages, activity, inflight, nreq, client>>

Next ==
    \/ createTicket
    \/ updateTicket
    \/ deleteTicket
    \/ reopenTicket
    \/ sendMessage
    \/ \E r \in InFlight : createTicketStore(r)
    \/ \E r \in InFlight : createTicketLog(r)
    \/ \E r \in InFlight : updateTicketStore(r)
    \/ \E r \in InFlight : updateTicketLog(r)
    \/ \E r \in InFlight : deleteTicketStore(r)
    \/ \E r \in InFlight : deleteTicketLog(r)
    \/ \E r \in InFlight : reopenTicketStore(r)
    \/ \E r \in InFlight : reopenTicketLog(r)
    \/ \E r \in InFlight : sendMessageStore(r)

\* The five mutating handlers, interleaved at their awaits, all served within
\* one reading of the clock.
Spec == Init /\ [][Next]_vars

\* updateTicket alone, with the clock moving between any two of its steps;
\* the requests change the status, or the assignee, or nothing.
ClockBodies ==
    {b \in UpdateBodies :
        <<b.assignee_id, b.status>> \in {<<Undefined, "In Progress">>,
                                         <<"U1", Undefined>>,
                                         <<Undefined, Undefined>>}}

updateTicketClock == updateTicketWith(ClockBodies)

ClockNext ==
    \/ Tick
    \/ updateTicketClock
    \/ \E r \in InFlight : updateTicketStore(r)
    \/ \E r \in InFlight : updateTicketLog(r)

ClockSpec == Init /\ [][ClockNext]_vars

\* The chat of a ticket: sendMessage and getMessages with the clock moving,
\* over a store that may hold a message of another ticket.
ChatBodies ==
    {MessageBody("U1", Undefined, "hi"),
     MessageBody(Undefined, "S1", "hi"),
     MessageBody("U1", "S1", "hi"),
     MessageBody("X9", Undefined, "hi")}

sendMessageChat == sendMessageWith(ChatBodies)

StoredMessage ==
    [id |-> 1, ticket_id |-> OtherTicket, message |-> "hi",
     sender_user_id |-> Null, sender_student_id |-> "S1", created_at |-> 0]

ChatInit ==
    /\ tickets = 1 :> StoredTicket("Open")
    /\ nextId = 2
    /\ messages \in {<< >>, <<StoredMessage>>}
    /\ activity = << >>
    /\ inflight = EmptyBag
    /\ nreq = 0
    /\ last = NoResp
    /\ now = 1
    /\ client = NoClient

ChatNext ==
    \/ Tick
    \/ sendMessageChat
    \/ \E r \in InFlight : sendMessageStore(r)
    \/ getMessages

ChatSpec == ChatInit /\ [][ChatNext]_vars

\* getAllTickets over a store that holds the first few of these tickets.
MaxListed == 3

ListedTicket(i) ==
    [id |-> i,
     title |-> <<"WiFi", "fee", "lab", "wifi">>[((i - 1) % 4) + 1],
     description |-> <<"d", "wifi", "d", "fee">>[((i - 1) % 4) + 1],
     student_id |-> "S1", priority |-> "Low", category |-> "General",
     status |-> <<"Open", "Resolved", "Open", "In Progress">>[((i - 1) % 4) + 1],
     assignee_id |-> IF i % 2 = 0 THEN "U1" ELSE Null,
     created_at |-> <<2, 1, 2, 3>>[((i - 1) % 4) + 1],
     updated_at |-> 3]

ListStores == {[i \in 1..k |-> ListedTicket(i)] : k \in 0..MaxListed}

ListInit ==
    /\ tickets \in ListStores
    /\ nextId = Len(tickets) + 1
    /\ messages = << >>
    /\ activity = << >>
    /\ inflight = EmptyBag
    /\ nreq = 0
    /\ last = NoResp
    /\ now = 4
    /\ client = NoClient

ListNext == getAllTickets

ListSpec == ListInit /\ [][ListNext]_vars

\* The tickets of such a store read, updated and deleted; the list is asked
\* for without filters and with a status filter.
ReadQueries ==
    {q \in ListQueries :
        q.search = Undefined /\ q.page = << >> /\ q.limit = << >> /\ q.status \in {Undefined, "Open"}}

getAllTicketsRead == getAllTicketsWith(ReadQueries)

ReadNext ==
    \/ getAllTicketsRead
    \/ getTicketById
    \/ updateTicketClock
    \/ deleteTicket
    \/ \E r \in InFlight : updateTicketStore(r)
    \/ \E r \in InFlight : updateTicketLog(r)
    \/ \E r \in InFlight : deleteTicketStore(r)
    \/ \E r \in InFlight : deleteTicketLog(r)

ReadSpec == ListInit /\ [][ReadNext]_vars

\* The handlers that await logActivity. The store answers every call it is
\* sent; nothing makes the activity-log write complete.
LiveNext ==
    \/ createTicket
    \/ updateTicket
    \/ deleteTicket
    \/ \E r \in InFlight : createTicketStore(r)
    \/ \E r \in InFlight : createTicketLog(r)
    \/ \E r \in InFlight : updateTicketStore(r)
    \/ \E r \in InFlight : updateTicketLog(r)
    \/ \E r \in InFlight : deleteTicketStore(r)
    \/ \E r \in InFlight : deleteTicketLog(r)

StoreAnswers ==
    \E r \in InFlight :
        createTicketStore(r) \/ updateTicketStore(r) \/ deleteTicketStore(r)

LiveSpec == Init /\ [][LiveNext]_vars /\ WF_vars(StoreAnswers)

\* The ticket mutations that write the activity log: created, given a staff
\* or an unknown assignee, moved on, deleted.
AuditBodies ==
    {b \in UpdateBodies :
        <<b.assignee_id, b.status>> \in {<<"X9", Undefined>>,
                                         <<"U1", Undefined>>,
                                         <<Undefined, "In Progress">>,
                                         <<Undefined, Undefined>>}}

updateTicketAudit == updateTicketWith(AuditBodies)

AuditNext ==
    \/ createTicket
    \/ updateTicketAudit
    \/ deleteTicket
    \/ \E r \in InFlight : createTicketStore(r)
    \/ \E r \in InFlight : createTicketLog(r)
    \/ \E r \in InFlight : updateTicketStore(r)
    \/ \E r \in InFlight : updateTicketLog(r)
    \/ \E r \in InFlight : deleteTicketStore(r)
    \/ \E r \in InFlight : deleteTicketLog(r)

AuditSpec == Init /\ [][AuditNext]_vars

\* The handlers of both controllers, with every call they await settling:
\* the store answers every call, and so does logActivity. Each mutating
\* handler gets a request it rejects and a request it sends to the store.
ServeCreates ==
    {CreateBody("wifi", "d", "S1", Undefined, Undefined, Undefined),
     CreateBody("wifi", "d", Undefined, Undefined, Undefined, Undefined)}

ServeUpdates ==
    {b \in UpdateBodies :
        <<b.assignee_id, b.status>> \in {<<"U1", Undefined>>, <<Undefined, Undefined>>}}

ServeSends ==
    {MessageBody(Undefined, "S1", "hi"), MessageBody(Undefined, "S1", Undefined)}

createTicketServe == createTicketWith(ServeCreates)
updateTicketServe == updateTicketWith(ServeUpdates)
sendMessageServe == sendMessageWith(ServeSends)

ServeNext ==
    \/ createTicketServe
    \/ updateTicketServe
    \/ deleteTicket
    \/ sendMessageServe
    \/ getTicketById
    \/ getMessages
    \/ \E r \in InFlight : createTicketStore(r)
    \/ \E r \in InFlight : createTicketLog(r)
    \/ \E r \in InFlight : updateTicketStore(r)
    \/ \E r \in InFlight : updateTicketLog(r)
    \/ \E r \in InFlight : deleteTicketStore(r)
    \/ \E r \in InFlight : deleteTicketLog(r)
    \/ \E r \in InFlight : sendMessageStore(r)

AwaitSettles ==
    \E r \in InFlight :
       \/ createTicketStore(r) \/ createTicketLog(r)
       \/ updateTicketStore(r) \/ updateTicketLog(r)
       \/ deleteTicketStore(r) \/ deleteTicketLog(r)
       \/ sendMessageStore(r)

ServeSpec == Init /\ [][ServeNext]_vars /\ WF_vars(AwaitSettles)

\* ----------------------------------------------------------------- routers
\* The routes of the ticket router and of the chat router: the middleware
\* registered in front of the handler, and the handler.
Route(method, path, middleware, handler) ==
    [method |-> method, path |-> path, middleware |-> middleware, handler |-> handler]

TicketRoutes ==
    {Route("GET", "/api/tickets", << >>, "getAllTickets"),
     Route("POST", "/api/tickets", << >>, "createTicket"),
     Route("GET", "/api/tickets/:id", << >>, "getTicketById"),
     Route("PATCH", "/api/tickets/:id", <<"auth">>, "updateTicket"),
     Route("DELETE", "/api/tickets/:id", <<"auth">>, "deleteTicket")}

ChatRoutes ==
    {Route("POST", "/api/chat/:ticketId", << >>, "sendMessage"),
     Route("GET", "/api/chat/:ticketId", << >>, "getMessages")}

Routes == TicketRoutes \cup ChatRoutes

\* The auth middleware calls next() for an authenticated request and answers
\* the others itself.
auth(authenticated) == authenticated

Unauthorized(route) ==
    /\ last' = [NoResp EXCEPT !.kind = route.handler, !.status = 401,
                              !.error = "Unauthorized"]
    /\ UNCHANGED <<tickets, nextId, messages, activity, inflight, nreq, now, client>>

\* The handler of a route is called.
Handler(name) ==
    \/ name = "getAllTickets" /\ getAllTicketsRead
    \/ name = "createTicket" /\ createTicket
    \/ name = "getTicketById" /\ getTicketById
    \/ name = "updateTicket" /\ updateTicketClock
    \/ name = "deleteTicket" /\ deleteTicket
    \/ name = "sendMessage" /\ sendMessageChat
    \/ name = "getMessages" /\ getMessages

\* A request for a route arrives: its middleware runs, then its handler,
\* unless the middleware answered.
Rejected(route, authenticated) ==
    \E i \in DOMAIN route.middleware :
       route.middleware[i] = "auth" /\ ~auth(authenticated)

Dispatch(route, authenticated) ==
    \/ Rejected(route, authenticated) /\ Unauthorized(route)
    \/ ~Rejected(route, authenticated) /\ Handler(route.handler)

RouteNext ==
    \/ \E route \in Routes, authenticated \in BOOLEAN : Dispatch(route, authenticated)
    \/ \E r \in InFlight : createTicketStore(r)
    \/ \E r \in InFlight : createTicketLog(r)
    \/ \E r \in InFlight : updateTicketStore(r)
    \/ \E r \in InFlight : updateTicketLog(r)
    \/ \E r \in InFlight : deleteTicketStore(r)
    \/ \E r \in InFlight : deleteTicketLog(r)
    \/ \E r \in InFlight : sendMessageStore(r)

\* Both routers, with requests that are authenticated and requests that are not.
RouteSpec == Init /\ [][RouteNext]_vars

\* The student ticket page over a store that holds tickets of two students;
\* the page was opened with or without a token, and with or without
\* student_data in localStorage.
ClientStores ==
    {[i \in 1..k |-> IF i = 3 THEN [ListedTicket(i) EXCEPT !.student_id = "S2"]
                               ELSE ListedTicket(i)] : k \in 0..MaxListed}

ClientInit ==
    /\ tickets \in ClientStores
    /\ nextId = Len(tickets) + 1
    /\ messages = << >>
    /\ activity = << >>
    /\ inflight = EmptyBag
    /\ nreq = 0
    /\ last = NoResp
    /\ now = 4
    /\ client \in {ClientState(token, student) :
                       token \in BOOLEAN, student \in Students \cup {Null}}

ClientNext ==
    \/ fetchTickets
    \/ receiveTickets
    \/ handleTicketSelect
    \/ onBack
    \/ setNewMessage
    \/ pressEnter
    \/ clickSend
    \/ sendSettled
    \/ onReopen
    \/ reopenSettled

ClientSpec == ClientInit /\ [][ClientNext]_vars

\* ------------------------------------------------------------------ claims
\* A request whose store call completes in this step.
ServedAtStore(r, kind) ==
    /\ r \in InFlight /\ r.kind = kind /\ r.pc = "store"
    /\ CopiesIn(r, inflight') < CopiesIn(r, inflight)

\* The request went on to its logActivity call with the row the store returned.
Advanced(r) ==
    /\ r.id \in DOMAIN tickets'
    /\ inflight' = Move(r, [r EXCEPT !.pc = "log", !.data = tickets'[r.id]])

\* A request of this kind arrived in this step and was answered at once.
AnsweredOnArrival(kind) == nreq' # nreq /\ last'.kind = kind

Sent(row) == row \notin {Undefined, Null, ""}

\* C1: a sendMessage served while its ticket is Resolved inserts no row into
\* messages and is not answered 201 (the guard half of the claim: no message
\* is persisted for a ticket while that ticket's status is Resolved).
C1_NoMessageWhileResolved ==
    [][\A r \in InFlight :
         (ServedAtStore(r, "send") /\ r.id \in DOMAIN tickets
            /\ tickets[r.id].status = "Resolved")
         => (messages' = messages /\ last'.status # 201)]_vars

\* C2: reopen sets the status to Open and goes on to succeed if and only if
\* the ticket's status is Resolved (short of a store failure, answered 500);
\* on an Open or In Progress ticket it is answered 409 Conflict and the
\* tickets are unchanged; a 200 response carries the ticket with status Open.
C2_ReopenIffResolved ==
    [][/\ \A r \in InFlight :
            (ServedAtStore(r, "reopen") /\ r.id \in DOMAIN tickets) =>
              IF tickets[r.id].status = "Resolved"
              THEN \/ /\ Advanced(r)
                      /\ tickets' = [tickets EXCEPT ![r.id].status = "Open"]
                   \/ last'.status = 500 /\ tickets' = tickets
              ELSE /\ tickets' = tickets
                   /\ ~Advanced(r)
                   /\ last'.status \in {409, 500}
       /\ (last'.kind = "reopen" /\ last'.status = 200) => last'.data.status = "Open"
       /\ \A r \in BagToSet(inflight') : (r.kind = "reopen" /\ r.pc = "log") => r.data.status = "Open"
      ]_vars

C2_Witness ==
    /\ last.kind = "reopen" /\ last.status = 200
    /\ last.id \in DOMAIN tickets /\ tickets[last.id].status = "Open"

Backward(old, new) ==
    <<old, new>> \in {<<"Resolved", "Open">>, <<"Resolved", "In Progress">>,
                      <<"In Progress", "Open">>}

\* C3: updateTicket never moves a ticket's status backwards: not from Resolved
\* to Open or In Progress, and not from In Progress to Open.
C3_UpdateNeverBackward ==
    [][\A r \in InFlight :
         (ServedAtStore(r, "update") /\ r.id \in DOMAIN tickets /\ r.id \in DOMAIN tickets')
         => ~Backward(tickets[r.id].status, tickets'[r.id].status)]_vars

\* C4: every stored ticket has a status in {Open, In Progress, Resolved}.
C4_StatusInSet ==
    \A id \in DOMAIN tickets : tickets[id].status \in {"Open", "In Progress", "Resolved"}

\* C5: the lifecycle of a ticket: a sendMessage served while the ticket is
\* Resolved is rejected and persists nothing; a sendMessage served while it is
\* not Resolved (so after a reopen) and answered 201 has persisted the message
\* with the sender of the request.
C5_Lifecycle ==
    [][\A r \in InFlight :
         (ServedAtStore(r, "send") /\ r.id \in DOMAIN tickets) =>
           IF tickets[r.id].status = "Resolved"
           THEN Len(messages') = Len(messages) /\ last'.status \notin {200, 201}
           ELSE last'.status = 201 =>
                  /\ Len(messages') = Len(messages) + 1
                  /\ messages'[Len(messages')] = last'.data
                  /\ Sent(r.body.sender_student_id) /\ ~Sent(r.body.sender_user_id)
                       => last'.data.sender_student_id = r.body.sender_student_id
      ]_vars

\* The request bodies the claim says sendMessage rejects.
SendMustFail(body) ==
    \/ ~Sent(body.message)
    \/ ~Sent(body.sender_user_id) /\ ~Sent(body.sender_student_id)
    \/ Sent(body.sender_user_id) /\ Sent(body.sender_student_id)

\* C6: a sendMessage whose text is empty, or that names no sender or both
\* senders, is answered 400 and never reaches the store.
C6_InvalidSendRejected ==
    /\ \A r \in InFlight : r.kind = "send" => ~SendMustFail(r.body)
    /\ (last.kind = "send" /\ SendMustFail(last.body))
         => (last.status = 400 /\ last.data = NoData)

\* C7: every persisted message has exactly one sender reference set.
C7_ExactlyOneSender ==
    \A i \in DOMAIN messages :
        Sent(messages[i].sender_user_id) # Sent(messages[i].sender_student_id)

C7_Witness ==
    /\ last.kind = "send" /\ last.status = 201
    /\ Sent(last.body.sender_user_id) /\ Sent(last.body.sender_student_id)
    /\ Len(messages) > 0 /\ messages[Len(messages)] = last.data

\* C8: the ticket a successful createTicket returns has status Open, the
\* supplied priority (Low when none or an empty one is supplied) and the
\* supplied category (General when none is supplied), whatever status the
\* request body carries; the stored row is the returned one when inserted.
C8_CreateDefaults ==
    [][/\ (last'.kind = "create" /\ last'.status = 201) =>
            /\ last'.data.status = "Open"
            /\ last'.data.priority = IF Sent(last'.body.priority) THEN last'.body.priority ELSE "Low"
            /\ last'.data.category = IF Sent(last'.body.category) THEN last'.body.category ELSE "General"
       /\ \A r \in InFlight :
            (ServedAtStore(r, "create") /\ tickets' # tickets) =>
              /\ DOMAIN tickets' = DOMAIN tickets \cup {nextId}
              /\ tickets'[nextId].status = "Open"
              /\ tickets'[nextId].priority = IF Sent(r.body.priority) THEN r.body.priority ELSE "Low"
              /\ tickets'[nextId].category = IF Sent(r.body.category) THEN r.body.category ELSE "General"
              /\ inflight' = Move(r, [r EXCEPT !.pc = "log", !.data = tickets'[nextId]])
      ]_vars

C8_Witness ==
    /\ last.kind = "create" /\ last.status = 201
    /\ last.body.status = "Resolved" /\ last.body.priority = "High"
    /\ last.data.status = "Open"

\* The request bodies the claim says createTicket rejects.
CreateMustFail(body) ==
    ~Sent(body.title) \/ ~Sent(body.description) \/ ~Sent(body.student_id)

\* C9: createTicket answers 400 exactly when title, description or student_id
\* is empty or absent, and then nothing is inserted, nothing is logged and no
\* store call is issued; every other createTicket reaches the store.
C9_CreateValidation ==
    [][/\ AnsweredOnArrival("create") =>
            /\ last'.status = 400 /\ CreateMustFail(last'.body)
            /\ UNCHANGED <<tickets, nextId, messages, activity, inflight>>
       /\ (last'.kind = "create" /\ last'.status = 400) => CreateMustFail(last'.body)
       /\ \A r \in BagToSet(inflight') : r.kind = "create" => ~CreateMustFail(r.body)
      ]_vars

C9_Witness ==
    /\ last.kind = "create" /\ last.status = 400
    /\ last.body.title = "wifi" /\ last.body.description = "d" /\ last.body.student_id = ""

\* What the claim counts as a supplied field of an updateTicket body.
StatusSupplied(body) == body.status \notin {Undefined, ""}
AssigneeSupplied(body) == body.assignee_id # Undefined

\* C10 as stated: an updateTicket that supplies a field and is served on an
\* existing ticket succeeds with 200 (read generously: short of a 500).
C10_UpdateAlwaysSucceeds ==
    [][\A r \in InFlight :
         (ServedAtStore(r, "update") /\ r.id \in DOMAIN tickets)
         => (Advanced(r) \/ last'.status = 500)]_vars

\* C10 as amended: a body with neither field is answered 400 "No fields to
\* update provided." on arrival with the store untouched; a body with either
\* field (an empty status counts as absent, a null assignee_id as supplied)
\* always reaches the store; served on an existing ticket the update is
\* applied, or the store rejects a non-staff assignee (400) or fails (500),
\* leaving the tickets unchanged; a 200 response carries the updated ticket.
C10_UpdateValidation ==
    [][/\ AnsweredOnArrival("update") =>
            /\ last'.status = 400 /\ last'.error = "No fields to update provided."
            /\ ~StatusSupplied(last'.body) /\ ~AssigneeSupplied(last'.body)
            /\ UNCHANGED <<tickets, nextId, messages, activity, inflight>>
       /\ \A r \in BagToSet(inflight') :
            r.kind = "update" => (StatusSupplied(r.body) \/ AssigneeSupplied(r.body))
       /\ \A r \in InFlight :
            (ServedAtStore(r, "update") /\ r.id \in DOMAIN tickets) =>
              \/ /\ Advanced(r)
                 /\ StatusSupplied(r.body) => tickets'[r.id].status = r.body.status
                 /\ AssigneeSupplied(r.body) => tickets'[r.id].assignee_id = r.body.assignee_id
              \/ /\ last'.status = 400 /\ last'.error = AssigneeMessage
                 /\ r.body.assignee_id \notin Staff \cup {Null}
                 /\ tickets' = tickets
              \/ last'.status = 500 /\ tickets' = tickets
       /\ (last'.kind = "update" /\ last'.status = 200) =>
            /\ StatusSupplied(last'.body) => last'.data.status = last'.body.status
            /\ AssigneeSupplied(last'.body) => last'.data.assignee_id = last'.body.assignee_id
      ]_vars

C10_Witness ==
    /\ last.kind = "update" /\ last.status = 200
    /\ last.body.assignee_id = Null /\ last.body.status = Undefined
    /\ last.data.assignee_id = Null
\* The update of request r was applied to its ticket in this step.
Applied(r) == ServedAtStore(r, "update") /\ r.id \in DOMAIN tickets /\ Advanced(r)

\* C11: every successful updateTicket leaves the ticket's updated_at above its
\* value before the update, back-to-back and concurrent updates included (read
\* generously: updated_at never moves backwards).
C11_UpdatedAtIncreases ==
    [][\A r \in InFlight :
         Applied(r) => tickets'[r.id].updated_at >= tickets[r.id].updated_at]_vars
\* The columns no updateTicket request can name.
SameOwnFields(old, new) ==
    /\ new.id = old.id /\ new.student_id = old.student_id
    /\ new.title = old.title /\ new.description = old.description
    /\ new.priority = old.priority /\ new.category = old.category
    /\ new.created_at = old.created_at

\* C12: an updateTicket that is applied changes, of its ticket, only the
\* fields supplied among assignee_id and status, plus updated_at: student_id,
\* title, description, priority, category and created_at keep their values,
\* a field that is not supplied keeps its value, and no other ticket changes;
\* an updateTicket that is not applied changes no ticket.
C12_UpdateFrame ==
    [][\A r \in InFlight :
         ServedAtStore(r, "update") =>
           IF Applied(r)
           THEN /\ DOMAIN tickets' = DOMAIN tickets
                /\ \A j \in DOMAIN tickets \ {r.id} : tickets'[j] = tickets[j]
                /\ SameOwnFields(tickets[r.id], tickets'[r.id])
                /\ ~StatusSupplied(r.body) => tickets'[r.id].status = tickets[r.id].status
                /\ ~AssigneeSupplied(r.body) => tickets'[r.id].assignee_id = tickets[r.id].assignee_id
                /\ DOMAIN tickets'[r.id] = DOMAIN tickets[r.id]
           ELSE tickets' = tickets]_vars

C12_Witness ==
    /\ last.kind = "update" /\ last.status = 200
    /\ last.body.status = "Resolved" /\ last.body.assignee_id = Undefined
    /\ last.data.assignee_id = "U1" /\ last.data.created_at < last.data.updated_at
    /\ tickets[last.id] = last.data
\* The ids of a sequence of rows, in its order.
Ids(rows) == [i \in DOMAIN rows |-> rows[i].id]

StoredRows == {tickets[i] : i \in DOMAIN tickets}

\* C13: getAllTickets with page >= 1 and limit >= 1 given in the query returns
\* at most limit items, namely the window of the matching tickets (newest
\* first) that starts at offset (page-1)*limit, and total is the number of all
\* matching tickets.
C13_PageWindow ==
    (last.kind = "list" /\ last.status = 200
        /\ last.body.page # << >> /\ last.body.limit # << >>)
    => LET page == last.body.page[1]
           limit == last.body.limit[1]
           rows == {t \in StoredRows : listMatches(t, last.body)}
           from == (page - 1) * limit + 1
       IN  /\ Len(last.data.items) <= limit
           /\ \E order \in Ordered(rows, FALSE) :
                 Ids(last.data.items) =
                   Ids(SubSeq(order, from,
                              IF from + limit - 1 < Len(order) THEN from + limit - 1 ELSE Len(order)))
           /\ last.data.total = Cardinality(rows)

\* text contains term, letter case aside.
Contains(text, term) ==
    LET chars == Lower(Spell(text))
        word == Lower(Spell(term))
    IN  \E i \in 1..(Len(chars) - Len(word) + 1) : SubSeq(chars, i, i + Len(word) - 1) = word

\* The tickets the claim says a query selects.
Selected(t, query) ==
    /\ query.status \in {Undefined, "", "All"} \/ t.status = query.status
    /\ query.search \in {Undefined, ""}
         \/ Contains(t.title, query.search) \/ Contains(t.description, query.search)

\* C14: getAllTickets (here without page and limit, so that the default window
\* holds every stored ticket) returns exactly the tickets whose status is the
\* status filter (all when it is absent or 'All') and whose title or
\* description contains the search term, letter case aside (all when it is
\* absent), ordered by created_at descending.
C14_ListFilter ==
    (last.kind = "list" /\ last.status = 200
        /\ last.body.page = << >> /\ last.body.limit = << >>)
    => LET items == last.data.items IN
       /\ {items[i].id : i \in DOMAIN items} = {t.id : t \in {u \in StoredRows : Selected(u, last.body)}}
       /\ \A i, j \in DOMAIN items :
             i < j => items[i].id # items[j].id /\ items[i].created_at >= items[j].created_at
\* C15: getMessages returns all messages of the ticket and no message of
\* another ticket, in non-decreasing created_at order, whatever the
\* interleaving of the sendMessage requests that inserted them.
C15_MessagesOrdered ==
    (last.kind = "messages" /\ last.status = 200)
    => LET items == last.data IN
       /\ \A i \in DOMAIN items : items[i].ticket_id = last.id
       /\ {items[i].id : i \in DOMAIN items}
            = {messages[i].id : i \in {j \in DOMAIN messages : messages[j].ticket_id = last.id}}
       /\ \A i, j \in DOMAIN items :
             i < j => items[i].id # items[j].id /\ items[i].created_at <= items[j].created_at

\* The messages of two participants are listed, oldest first, while the store
\* holds a message of another ticket.
C15_Witness ==
    /\ last.kind = "messages" /\ last.status = 200 /\ Len(last.data) = 2
    /\ last.data[1].sender_user_id = "U1" /\ last.data[2].sender_student_id = "S1"
    /\ last.data[1].created_at < last.data[2].created_at
    /\ \E i \in DOMAIN messages : messages[i].ticket_id # last.id

\* C16: every message getMessages returns has exactly one of sender_user_id
\* and sender_student_id set, a non-empty sender_name (the staff username when
\* sender_user_id is set, else the student's name), and neither the
\* sender_user nor the sender_student relation.
C16_SenderName ==
    (last.kind = "messages" /\ last.status = 200)
    => \A i \in DOMAIN last.data :
         LET item == last.data[i] IN
         /\ Sent(item.sender_user_id) # Sent(item.sender_student_id)
         /\ item.sender_name # ""
         /\ item.sender_name = IF Sent(item.sender_user_id)
                                THEN Usernames[item.sender_user_id]
                                ELSE StudentNames[item.sender_student_id]
         /\ "sender_user" \notin DOMAIN item /\ "sender_student" \notin DOMAIN item

C16_Witness ==
    /\ last.kind = "messages" /\ last.status = 200
    /\ \E i, j \in DOMAIN last.data :
          /\ last.data[i].sender_user_id = "U1" /\ last.data[i].sender_name = "admin"
          /\ last.data[j].sender_student_id = "S1" /\ last.data[j].sender_name = "Asha"
\* The response to a request whose id matches no ticket: 404 built from the
\* store's no-row error, or 500 when the store call itself failed.
AnsweredNotFound ==
    \/ /\ last'.code = "PGRST116" /\ last'.status = 404
       /\ last'.error = "Ticket not found" /\ last'.data = NoData
    \/ last'.code # "PGRST116" /\ last'.status = 500

\* C17: a deleteTicket served on an existing id removes that ticket and no
\* other and goes on to answer; its success response is 204 with an empty
\* body; a removed ticket is in no later getAllTickets or getTicketById
\* response and never comes back; a deleteTicket served on an id that is
\* gone (a second delete) is answered 404, not success, and changes nothing.
C17_DeleteThenGone ==
    [][/\ \A r \in InFlight :
            ServedAtStore(r, "delete") =>
              IF r.id \in DOMAIN tickets
              THEN \/ /\ tickets' = [i \in DOMAIN tickets \ {r.id} |-> tickets[i]]
                      /\ inflight' = Move(r, [r EXCEPT !.pc = "log", !.data = tickets[r.id]])
                   \/ /\ tickets' = tickets /\ inflight' = Remove(r)
                      /\ last'.status = 500 /\ last'.code # "PGRST116"
              ELSE /\ tickets' = tickets /\ inflight' = Remove(r)
                   /\ activity' = activity
                   /\ AnsweredNotFound
       /\ last'.kind = "delete" => last'.status \in {204, 404, 500}
       /\ (last'.kind = "delete" /\ last'.status = 204) =>
            /\ last'.data = NoData /\ last'.error = ""
            /\ last'.id \notin DOMAIN tickets'
       /\ (last'.kind = "get" /\ last'.status = 200) =>
            /\ last'.id \in DOMAIN tickets' /\ last'.data.id = last'.id
       /\ (last'.kind = "list" /\ last'.status = 200) =>
            \A i \in DOMAIN last'.data.items : last'.data.items[i].id \in DOMAIN tickets'
       /\ DOMAIN tickets' \subseteq DOMAIN tickets
      ]_vars

\* The second deleteTicket on an id is answered 404 after the first removed
\* the ticket.
C17_Witness ==
    /\ last.kind = "delete" /\ last.status = 404
    /\ last.id < nextId /\ last.id \notin DOMAIN tickets
    /\ activity = <<"Deleted">>

\* C20: getTicketById, updateTicket and deleteTicket on an id that matches no
\* ticket are answered 404 (500 only when the store call itself fails) and
\* leave the tickets and the activity log as they are; the request does not
\* go on to logActivity.
C20_NotFound ==
    [][/\ \A r \in InFlight :
            ((ServedAtStore(r, "update") \/ ServedAtStore(r, "delete"))
                /\ r.id \notin DOMAIN tickets)
            => /\ AnsweredNotFound
               /\ tickets' = tickets /\ activity' = activity
               /\ inflight' = Remove(r)
       /\ (last'.kind = "get" /\ last'.id \notin DOMAIN tickets)
            => /\ AnsweredNotFound
               /\ UNCHANGED <<tickets, activity, inflight>>
      ]_vars

C20_Witness ==
    /\ last.kind = "update" /\ last.status = 404 /\ last.id \notin DOMAIN tickets
    /\ activity = << >> /\ inflight = EmptyBag /\ nreq = 2
\* The request r awaits logActivity and is answered in this step.
AnsweredAfterLog(r) ==
    /\ r \in InFlight /\ r.pc = "log" /\ r.kind \in {"create", "update", "delete"}
    /\ CopiesIn(r, inflight') < CopiesIn(r, inflight)

\* C18: a createTicket, updateTicket or deleteTicket whose store call
\* succeeded is answered with its success status (201, 200, 204) and, for 201
\* and 200, the persisted ticket, whether logActivity wrote its record,
\* failed or threw.
C18_LogFailureIsolated ==
    [][\A r \in InFlight :
         AnsweredAfterLog(r) =>
           /\ last'.status = CASE r.kind = "create" -> 201
                                [] r.kind = "update" -> 200
                                [] OTHER -> 204
           /\ r.kind # "delete" => last'.data = r.data]_vars

\* C19: once the store call of a createTicket, updateTicket or deleteTicket
\* has succeeded and the handler is at its logActivity call, the response is
\* eventually sent, whether or not logActivity completes.
C19_RespondsWithoutLog ==
    (\E r \in InFlight : r.pc = "log") ~> (\A r \in InFlight : r.pc # "log")

\* C21: an updateTicket the store rejects because its assignee is no staff
\* account is answered with a 400-class status, never 500, and leaves every
\* ticket as it was; and in every reachable state the assignee of a ticket is
\* null or a staff account.
AssigneeIsStaff ==
    \A id \in DOMAIN tickets : tickets[id].assignee_id \in Staff \cup {Null}

C21_AssigneeRejected ==
    /\ []AssigneeIsStaff
    /\ [][\A r \in InFlight :
            (ServedAtStore(r, "update") /\ last'.code = AssigneeRejected.code)
               => /\ last'.status \in 400..499
                  /\ last'.error = AssigneeMessage
                  /\ tickets' = tickets]_vars

C21_Witness ==
    /\ last.kind = "update" /\ last.code = AssigneeRejected.code
    /\ last.status = 400
    /\ last.id \in DOMAIN tickets
    /\ last.body.assignee_id \notin Staff \cup {Null, Undefined}

\* C22: a sendMessage or getMessages whose ticket id matches no ticket is
\* never answered with success: it is answered 404 (400 when the body of a
\* sendMessage is invalid, 500 when the store call itself fails).
C22_UnknownTicketNotFound ==
    [][(last'.kind \in {"send", "messages"} /\ last'.id \notin DOMAIN tickets)
          => last'.status \in {404, 400, 500}]_vars

\* C23: a 500-class response carries one of the fixed safe messages and
\* nothing else: no field of its body holds the message of the store's error
\* or of the exception the handler caught.
SafeMessages ==
    {"Internal server error", "Failed to send message", "Failed to fetch messages"}
      \cup {"Failed to " \o context \o " ticket " \o ToString(id) :
                context \in {"updating", "deleting", "fetching", "reopening"},
                id \in TicketIds}
      \cup {"Failed to creating ticket", "Failed to fetching tickets"}

C23_SafeServerErrors ==
    [][last'.status \in 500..599
          => last'.error \in SafeMessages /\ last'.data = NoData]_vars

\* C24: messages are append-only. Every step of the ticket and chat handlers
\* keeps every persisted message as it is; the only step that changes the
\* messages is a sendMessage answered 201, which adds one message, at the end
\* and for the ticket of its request; and no step of a sendMessage changes a
\* ticket.
C24_MessagesAppendOnly ==
    [][/\ Len(messages') \in {Len(messages), Len(messages) + 1}
       /\ \A i \in DOMAIN messages : messages'[i] = messages[i]
       /\ Len(messages') > Len(messages) =>
             \E r \in InFlight :
                /\ ServedAtStore(r, "send")
                /\ last'.status = 201
                /\ messages'[Len(messages')] = last'.data
                /\ last'.data.ticket_id = r.id
       /\ (last'.kind = "send" \/ \E r \in InFlight : ServedAtStore(r, "send"))
             => tickets' = tickets]_vars

C24_Witness ==
    /\ Len(messages) = 2
    /\ last.kind = "send" /\ last.status = 201
    /\ last.data = messages[2]

\* The label and the success status of the handlers that call logActivity.
ActivityLabel(kind) ==
    CASE kind = "create" -> "Created"
      [] kind = "update" -> "Updated"
      [] OTHER -> "Deleted"

SuccessStatus(kind) ==
    CASE kind = "create" -> 201
      [] kind = "update" -> 200
      [] OTHER -> 204

\* C25 as stated: every createTicket, updateTicket and deleteTicket answered
\* with its success status has appended exactly one activity record, with its
\* label, and no other step changes the activity log.
C25_OneRecordPerSuccess ==
    [][/\ \A r \in InFlight :
            (AnsweredAfterLog(r) /\ last'.status = SuccessStatus(r.kind))
               => activity' = Append(activity, ActivityLabel(r.kind))
       /\ activity' # activity => \E r \in InFlight : AnsweredAfterLog(r)]_vars

\* C25, amended: a createTicket, updateTicket or deleteTicket calls
\* logActivity once, after its store call succeeded, and that call appends
\* either one record with the label of the handler or, when the write
\* fails, none; a record is appended only by such a call, whose handler then
\* answers with its success status; a success status is sent only after
\* such a call; and no step changes or removes a record.
C25_ActivityPerSuccess ==
    [][/\ \A r \in InFlight :
            AnsweredAfterLog(r)
               => activity' \in {activity, Append(activity, ActivityLabel(r.kind))}
       /\ activity' # activity =>
            \E r \in InFlight :
               /\ AnsweredAfterLog(r)
               /\ activity' = Append(activity, ActivityLabel(r.kind))
               /\ last'.status = SuccessStatus(r.kind)
       /\ (last'.kind \in {"create", "update", "delete"} /\ last'.status \in 200..299) =>
            \E r \in InFlight :
               AnsweredAfterLog(r) /\ r.kind = last'.kind /\ last'.status = SuccessStatus(r.kind)]_vars

C25_Witness ==
    /\ activity = <<"Created", "Updated">>
    /\ last.kind = "update" /\ last.status = 200

\* C26: a request that is not authenticated and asks for one of the routes
\* documented '@access Private' is answered 401 by the auth middleware and
\* changes nothing: the handler of the route is not called.
C26_PrivateRoutesAuthenticated ==
    [][\A route \in Routes :
          Dispatch(route, FALSE)
             => /\ last'.status = 401
                /\ UNCHANGED <<tickets, nextId, messages, activity, inflight, nreq>>]_vars

\* The requests that leave their handler in this step: those that arrive and
\* are answered at once, and those whose last awaited call settles.
Finished ==
    (nreq' - nreq) + BagCardinality(inflight) - BagCardinality(inflight')

C28_MessagesHaveTicket ==
    \A i \in DOMAIN messages : messages[i].ticket_id \in DOMAIN tickets

\* C29: while the ticket selected in the detail view is Resolved, the page
\* issues no sendMessage request.
C29_NoSendWhileResolved ==
    [][(Len(client'.sent) > Len(client.sent)
          /\ client'.sent[Len(client'.sent)].kind = "send")
         => ~isResolved]_vars

\* C30: every ticket of the list the ticket page shows was created by the
\* student that is logged in; with no student loaded the list shows none.
CreatedByStudent(list) ==
    \A i \in DOMAIN list :
       client.student # Null /\ list[i].student.id = client.student

C30_OnlyOwnTickets ==
    client.view = "list" => CreatedByStudent(filteredTickets) /\ CreatedByStudent(TicketsPageTickets)

====
